---- MODULE Spec2Model ----
(***************************************************************************)
(* Graphite backend: the chat streaming endpoint (routes/chat.py), the     *)
(* provider router (services/llm_router.py), the OpenAI adapter            *)
(* (services/adapters/openai_adapter.py), the request models               *)
(* (models/chat.py) and the persistence service (services/chat_persist.py).*)
(* One request is followed from the arrival of its body to the end of the  *)
(* server-sent-event stream.                                               *)
(***************************************************************************)
EXTENDS Integers, Sequences, FiniteSets, TLC

VARIABLES
    body,             \* the JSON body of the POST /stream request
    payload,          \* the validated ChatStreamRequest (defaults applied)
    adapters,         \* LLMRouter.adapters: the providers that have an adapter
    default_provider, \* LLMRouter.default_provider
    db_enabled,       \* database._db_enabled
    disconnected,     \* what request.is_disconnected() answers
    pc,               \* where the request is in stream_chat / event_generator
    log,              \* what the request did, in order: events sent and calls made
    session_id,       \* event_generator's local session_id (0 is None)
    sessions,         \* rows of the chat session table
    db_messages,      \* rows of the message table
    vendor_call,      \* arguments of client.chat.completions.create
    vendor_chunks,    \* the chunks the vendor stream has produced so far
    delta,            \* the fragment the controller holds
    exc               \* the exception in flight

vars == <<body, payload, adapters, default_provider, db_enabled, disconnected,
          pc, log, session_id, sessions, db_messages, vendor_call,
          vendor_chunks, delta, exc>>

-----------------------------------------------------------------------------
(* Bounds of the model *)

MaxMsgs == 2

MaxChunks == 2

-----------------------------------------------------------------------------
(* Values *)

\* Optional[...]: None, or a value
None == [tag |-> "none", val |-> <<>>]

Some(v) == [tag |-> "some", val |-> v]

\* a field the JSON body does not carry
Absent == [tag |-> "absent", val |-> <<>>]

\* Strings that the code inspects letter by letter are tuples of characters.
s_openai == <<"o", "p", "e", "n", "a", "i">>

s_anthropic == <<"a", "n", "t", "h", "r", "o", "p", "i", "c">>

s_gemini == <<"g", "e", "m", "i", "n", "i">>

s_perplexity == <<"p", "e", "r", "p", "l", "e", "x", "i", "t", "y">>

\* class Provider(str, Enum), in definition order
Provider == <<s_openai, s_anthropic, s_gemini, s_perplexity>>

ProviderSet == {Provider[i] : i \in 1..Len(Provider)}

\* str.lower() on one character
LowerChar(c) ==
    CASE c = "A" -> "a" [] c = "B" -> "b" [] c = "C" -> "c" [] c = "D" -> "d"
      [] c = "E" -> "e" [] c = "F" -> "f" [] c = "G" -> "g" [] c = "H" -> "h"
      [] c = "I" -> "i" [] c = "J" -> "j" [] c = "K" -> "k" [] c = "L" -> "l"
      [] c = "M" -> "m" [] c = "N" -> "n" [] c = "O" -> "o" [] c = "P" -> "p"
      [] c = "Q" -> "q" [] c = "R" -> "r" [] c = "S" -> "s" [] c = "T" -> "t"
      [] c = "U" -> "u" [] c = "V" -> "v" [] c = "W" -> "w" [] c = "X" -> "x"
      [] c = "Y" -> "y" [] c = "Z" -> "z" [] OTHER -> c

\* str.lower()
Lower(s) == [i \in 1..Len(s) |-> LowerChar(s[i])]

\* str.upper() on a role name
Upper(role) ==
    CASE role = "user" -> "USER" [] role = "assistant" -> "ASSISTANT"
      [] role = "system" -> "SYSTEM" [] OTHER -> role

-----------------------------------------------------------------------------
(* models/chat.py *)

Roles == {"user", "assistant", "system"}

\* temperature is kept in tenths: ge=0.0, le=2.0, default=0.2
TempMin == 0

TempMax == 20

TempDefault == 2

\* ChatMessage: role is one of the literals, content has min_length 1
ChatMessage(m) == m.role \in Roles /\ Len(m.content) >= 1

\* ChatStreamRequest with the upper limit of temperature left out
ChatStreamRequest_NoRange(b) ==
    /\ Len(b.messages) >= 1
    /\ \A i \in 1..Len(b.messages) : ChatMessage(b.messages[i])
    /\ b.temperature.tag = "some" => b.temperature.val >= TempMin

\* ChatStreamRequest: messages has min_items 1, temperature is None or in range
ChatStreamRequest(b) ==
    /\ Len(b.messages) >= 1
    /\ \A i \in 1..Len(b.messages) : ChatMessage(b.messages[i])
    /\ b.temperature.tag = "some" =>
         (b.temperature.val >= TempMin /\ b.temperature.val <= TempMax)

\* the fields' defaults
Parsed(b) ==
    [messages    |-> b.messages,
     provider    |-> IF b.provider.tag = "absent" THEN None ELSE b.provider,
     model       |-> IF b.model.tag = "absent" THEN None ELSE b.model,
     temperature |-> IF b.temperature.tag = "absent"
                         THEN Some(TempDefault) ELSE b.temperature]

-----------------------------------------------------------------------------
(* services/llm_router.py *)

RECURSIVE ResolveFrom(_, _, _)
\* the loop "for p in Provider" of _resolve, from member i on
ResolveFrom(i, provider_lower, dflt) ==
    IF i > Len(Provider) THEN dflt
    ELSE IF Provider[i] = provider_lower THEN Provider[i]
    ELSE ResolveFrom(i + 1, provider_lower, dflt)

\* _resolve comparing the name as given, without lower()
_resolve_NoLower(provider, dflt) ==
    IF provider.tag = "none" THEN dflt
    ELSE ResolveFrom(1, provider.val, dflt)

\* LLMRouter._resolve
_resolve(provider, dflt) ==
    IF provider.tag = "none" THEN dflt
    ELSE ResolveFrom(1, Lower(provider.val), dflt)

\* str(exc) of an exception
Message(text, arg) == [text |-> text, arg |-> arg]

NoExc == Message("", <<>>)

-----------------------------------------------------------------------------
(* services/adapters/openai_adapter.py *)

\* settings.openai_model, the adapter's default_model
default_model == "gpt-4o-mini"

\* A chunk of the vendor stream: choices is a list, each choice carries
\* delta.content, a string or None.
TextChunk(t) == [choices |-> <<Some(t)>>]

NullChunk == [choices |-> <<None>>]

MalformedChunk == [choices |-> <<>>]

\* the adapter without the 'or ""': a None content is passed on as text
AdapterDelta_NoneText(event) ==
    IF Len(event.choices) = 0 THEN ""
    ELSE IF event.choices[1].tag = "none" THEN "None"
    ELSE event.choices[1].val

\* event.choices[0].delta.content or "", and "" when that raises
AdapterDelta(event) ==
    IF Len(event.choices) = 0 THEN ""
    ELSE IF event.choices[1].tag = "none" THEN ""
    ELSE event.choices[1].val

-----------------------------------------------------------------------------
(* routes/chat.py *)

\* _sse(event, data): one framed event
_sse(event, text, message) == [name |-> event, delta |-> text, message |-> message]

\* a step the request took: a call to a collaborator, or the loop's break
Call(name) == [name |-> name, delta |-> "", message |-> NoExc]

Emit(e) == log' = Append(log, e)

\* the request's position, after the body arrived
StreamPcs == {"start", "try", "append", "stream_chat", "create", "stream",
              "relay", "except", "finally"}

-----------------------------------------------------------------------------
(* stream_chat: FastAPI validates the body against ChatStreamRequest before *)
(* the handler runs; an invalid body is answered with a client error.       *)

Validate ==
    /\ pc = "received"
    /\ IF ChatStreamRequest(body)
         THEN /\ payload' = Parsed(body)
              /\ pc' = "start"
         ELSE /\ pc' = "rejected"
              /\ UNCHANGED payload
    /\ UNCHANGED <<body, adapters, default_provider, db_enabled, disconnected,
                   log, session_id, sessions, db_messages, vendor_call,
                   vendor_chunks, delta, exc>>

(* event_generator *)

\* yield _sse("message_start", {"ok": True})
MessageStart ==
    /\ pc = "start"
    /\ Emit(_sse("message_start", "", NoExc))
    /\ pc' = "try"
    /\ UNCHANGED <<body, payload, adapters, default_provider, db_enabled,
                   disconnected, session_id, sessions, db_messages,
                   vendor_call, vendor_chunks, delta, exc>>

\* if db_enabled(): false
PersistenceOff ==
    /\ pc = "try"
    /\ ~db_enabled
    /\ pc' = "stream_chat"
    /\ UNCHANGED <<body, payload, adapters, default_provider, db_enabled,
                   disconnected, log, session_id, sessions, db_messages,
                   vendor_call, vendor_chunks, delta, exc>>

\* session_id = await chat_persist.create_session(): the row is created and
\* its id returned
CreateSessionOk ==
    /\ sessions' = Append(sessions, [id |-> Len(sessions) + 1, title |-> "New Chat"])
    /\ session_id' = Len(sessions) + 1
    /\ pc' = "append"

\* create_session raising with no inner try around it: the exception
\* reaches the outer handler
CreateSessionRaises_Propagates ==
    /\ session_id' = 0
    /\ pc' = "except"
    /\ UNCHANGED sessions

\* ... or prisma raises, and "except Exception: session_id = None" runs
CreateSessionRaises ==
    /\ session_id' = 0
    /\ pc' = "stream_chat"
    /\ UNCHANGED sessions

CreateSession ==
    /\ pc = "try"
    /\ db_enabled
    /\ Emit(Call("create_session"))
    /\ (CreateSessionOk \/ CreateSessionRaises)
    /\ UNCHANGED <<body, payload, adapters, default_provider, db_enabled,
                   disconnected, db_messages, vendor_call, vendor_chunks,
                   delta, exc>>

\* the first message's content handed to append_message
PromptContent_First(messages) == messages[1].content

\* the content event_generator hands to append_message
PromptContent(messages) == messages[Len(messages)].content

\* chat_persist.append_message(session_id, role, content): the row is created
AppendMessageOk ==
    /\ db_messages' = Append(db_messages,
                             [sessionId |-> session_id,
                              role      |-> Upper("user"),
                              content   |-> PromptContent(payload.messages)])
    /\ UNCHANGED session_id

\* ... or prisma raises, and "except Exception: session_id = None" runs
AppendMessageRaises ==
    /\ session_id' = 0
    /\ UNCHANGED db_messages

AppendMessage ==
    /\ pc = "append"
    /\ Emit(Call("append_message"))
    /\ (AppendMessageOk \/ AppendMessageRaises)
    /\ pc' = "stream_chat"
    /\ UNCHANGED <<body, payload, adapters, default_provider, db_enabled,
                   disconnected, sessions, vendor_call, vendor_chunks,
                   delta, exc>>

\* stream_chat using the default provider's adapter when the resolved
\* provider has none
RouterStreamChat_Fallback ==
    /\ pc = "stream_chat"
    /\ Emit(Call("stream_chat"))
    /\ LET r == _resolve(payload.provider, default_provider)
           p == IF r \in adapters THEN r ELSE default_provider
       IN IF p \notin adapters
            THEN /\ exc' = Message("Provider not configured", p)
                 /\ pc' = "except"
                 /\ UNCHANGED vendor_call
            ELSE /\ vendor_call' =
                      [adapter     |-> p,
                       model       |-> IF payload.model.tag = "none"
                                           THEN default_model
                                           ELSE payload.model.val,
                       messages    |-> payload.messages,
                       temperature |-> payload.temperature]
                 /\ pc' = "create"
                 /\ UNCHANGED exc
    /\ UNCHANGED <<body, payload, adapters, default_provider, db_enabled,
                   disconnected, session_id, sessions, db_messages,
                   vendor_chunks, delta>>

\* LLMRouter.stream_chat up to the adapter call: resolve the provider, raise
\* RuntimeError when it has no adapter
RouterStreamChat ==
    /\ pc = "stream_chat"
    /\ Emit(Call("stream_chat"))
    /\ LET p == _resolve(payload.provider, default_provider)
       IN IF p \notin adapters
            THEN /\ exc' = Message("Provider not configured", p)
                 /\ pc' = "except"
                 /\ UNCHANGED vendor_call
            ELSE /\ vendor_call' =
                      [adapter     |-> p,
                       model       |-> IF payload.model.tag = "none"
                                           THEN default_model
                                           ELSE payload.model.val,
                       messages    |-> payload.messages,
                       temperature |-> payload.temperature]
                 /\ pc' = "create"
                 /\ UNCHANGED exc
    /\ UNCHANGED <<body, payload, adapters, default_provider, db_enabled,
                   disconnected, session_id, sessions, db_messages,
                   vendor_chunks, delta>>

\* what a failing vendor call says
VendorErrors == {Message("vendor error", <<>>)}

\* OpenAIAdapter.stream_chat: await client.chat.completions.create(...)
\* returns the stream, or raises
AdapterCreate ==
    /\ pc = "create"
    /\ Emit(Call("completions_create"))
    /\ \/ /\ pc' = "stream"
          /\ UNCHANGED exc
       \/ /\ \E e \in VendorErrors : exc' = e
          /\ pc' = "except"
    /\ UNCHANGED <<body, payload, adapters, default_provider, db_enabled,
                   disconnected, session_id, sessions, db_messages,
                   vendor_call, vendor_chunks, delta>>

\* the chunks a vendor stream is made of
Chunks == {TextChunk("Hel"), TextChunk("lo"), TextChunk(""), NullChunk,
           MalformedChunk}

\* async for event in stream: one more chunk arrives; the adapter yields its
\* text when it has some, and the router yields it on
StreamChunk ==
    /\ pc = "stream"
    /\ Len(vendor_chunks) < MaxChunks
    /\ \E event \in Chunks :
         /\ vendor_chunks' = Append(vendor_chunks, event)
         /\ IF AdapterDelta(event) # ""
              THEN /\ delta' = AdapterDelta(event)
                   /\ pc' = "relay"
              ELSE UNCHANGED <<delta, pc>>
    /\ UNCHANGED <<body, payload, adapters, default_provider, db_enabled,
                   disconnected, log, session_id, sessions, db_messages,
                   vendor_call, exc>>

\* the vendor stream ends: the adapter's and the router's generators return
StreamEnd ==
    /\ pc = "stream"
    /\ pc' = "finally"
    /\ UNCHANGED <<body, payload, adapters, default_provider, db_enabled,
                   disconnected, log, session_id, sessions, db_messages,
                   vendor_call, vendor_chunks, delta, exc>>

\* a vendor failure answered by calling the router again, once
StreamRaises_Retry ==
    /\ pc = "stream"
    /\ \E e \in VendorErrors : exc' = e
    /\ pc' = IF Cardinality({i \in 1..Len(log) : log[i].name = "stream_chat"}) < 2
               THEN "stream_chat" ELSE "except"
    /\ UNCHANGED <<body, payload, adapters, default_provider, db_enabled,
                   disconnected, log, session_id, sessions, db_messages,
                   vendor_call, vendor_chunks, delta>>

\* the vendor stream raises
StreamRaises ==
    /\ pc = "stream"
    /\ \E e \in VendorErrors : exc' = e
    /\ pc' = "except"
    /\ UNCHANGED <<body, payload, adapters, default_provider, db_enabled,
                   disconnected, log, session_id, sessions, db_messages,
                   vendor_call, vendor_chunks, delta>>

\* the loop body without the is_disconnected() poll
Relay_NoPoll ==
    /\ pc = "relay"
    /\ IF delta # ""
         THEN Emit(_sse("message_delta", delta, NoExc))
         ELSE UNCHANGED log
    /\ pc' = "stream"
    /\ delta' = ""
    /\ UNCHANGED <<body, payload, adapters, default_provider, db_enabled,
                   disconnected, session_id, sessions, db_messages,
                   vendor_call, vendor_chunks, exc>>

\* the body of "async for delta in llm.stream_chat(...)"
Relay ==
    /\ pc = "relay"
    /\ IF disconnected
         THEN /\ Emit(Call("break"))
              /\ pc' = "finally"
         ELSE /\ IF delta # ""
                   THEN Emit(_sse("message_delta", delta, NoExc))
                   ELSE UNCHANGED log
              /\ pc' = "stream"
    /\ delta' = ""
    /\ UNCHANGED <<body, payload, adapters, default_provider, db_enabled,
                   disconnected, session_id, sessions, db_messages,
                   vendor_call, vendor_chunks, exc>>

\* message_complete sent at the end of the try block, not in a finally: the
\* handler ends the stream
Except_ThenDone ==
    /\ pc = "except"
    /\ Emit(_sse("error", "", exc))
    /\ pc' = "done"
    /\ UNCHANGED <<body, payload, adapters, default_provider, db_enabled,
                   disconnected, session_id, sessions, db_messages,
                   vendor_call, vendor_chunks, delta, exc>>

\* the handler sending a fixed text, not str(exc)
Except_FixedText ==
    /\ pc = "except"
    /\ Emit(_sse("error", "", Message("Internal error", <<>>)))
    /\ pc' = "finally"
    /\ UNCHANGED <<body, payload, adapters, default_provider, db_enabled,
                   disconnected, session_id, sessions, db_messages,
                   vendor_call, vendor_chunks, delta, exc>>

\* except Exception as exc: yield _sse("error", {"message": str(exc)})
Except ==
    /\ pc = "except"
    /\ Emit(_sse("error", "", exc))
    /\ pc' = "finally"
    /\ UNCHANGED <<body, payload, adapters, default_provider, db_enabled,
                   disconnected, session_id, sessions, db_messages,
                   vendor_call, vendor_chunks, delta, exc>>

\* finally: yield _sse("message_complete", {})
Finally ==
    /\ pc = "finally"
    /\ Emit(_sse("message_complete", "", NoExc))
    /\ pc' = "done"
    /\ UNCHANGED <<body, payload, adapters, default_provider, db_enabled,
                   disconnected, session_id, sessions, db_messages,
                   vendor_call, vendor_chunks, delta, exc>>

\* the client goes away while the response is being produced
ClientDisconnect ==
    /\ pc \in StreamPcs
    /\ ~disconnected
    /\ disconnected' = TRUE
    /\ UNCHANGED <<body, payload, adapters, default_provider, db_enabled,
                   pc, log, session_id, sessions, db_messages, vendor_call,
                   vendor_chunks, delta, exc>>

Next ==
    \/ Validate
    \/ MessageStart
    \/ PersistenceOff
    \/ CreateSession
    \/ AppendMessage
    \/ RouterStreamChat
    \/ AdapterCreate
    \/ StreamChunk
    \/ StreamEnd
    \/ StreamRaises
    \/ Relay
    \/ Except
    \/ Finally
    \/ ClientDisconnect

-----------------------------------------------------------------------------
(* The requests, router configurations and database settings considered *)

\* all sequences over S of length at most n
SeqUpTo(S, n) == UNION {[1..k -> S] : k \in 0..n}

Contents == {<<>>, <<"h", "i">>, <<"y", "o">>}

Messages == [role : {"user", "assistant", "tool"}, content : Contents]

\* provider names a client may send
ProviderNames ==
    {s_openai,
     <<"O", "p", "e", "n", "A", "I">>,
     <<"O", "P", "E", "N", "A", "I">>,
     s_anthropic,
     <<"A", "n", "t", "h", "r", "o", "p", "i", "c">>,
     s_gemini,
     <<"G", "E", "M", "I", "N", "I">>,
     s_perplexity,
     <<"P", "e", "r", "p", "l", "e", "x", "i", "t", "y">>,
     <<"m", "i", "s", "t", "r", "a", "l">>,
     <<"o", "p", "e", "n", "a", "i", "2">>,
     <<"o", "p", "e", "n">>,
     <<>>}

Temperatures == {-1, 0, 2, 20, 21}

NoPayload == [messages |-> <<>>, provider |-> None, model |-> None,
              temperature |-> None]

NoCall == [adapter |-> <<>>, model |-> "", messages |-> <<>>,
           temperature |-> None]

\* the state when a body has arrived, for bodies in B, routers in R (pairs of
\* LLMRouter.__init__'s arguments; the handler is handed its router as the
\* dependency llm) and database settings in D
InitWith(B, R, D) ==
    /\ body \in B
    /\ \E r \in R : adapters = r[1] /\ default_provider = r[2]
    /\ db_enabled \in D
    /\ payload = NoPayload
    /\ disconnected = FALSE
    /\ pc = "received"
    /\ log = <<>>
    /\ session_id = 0
    /\ sessions = <<>>
    /\ db_messages = <<>>
    /\ vendor_call = NoCall
    /\ vendor_chunks = <<>>
    /\ delta = ""
    /\ exc = NoExc

\* a well-formed one-message body
HelloBody == [messages |-> <<[role |-> "user", content |-> <<"h", "i">>]>>,
              provider |-> Absent, model |-> Absent, temperature |-> Absent]

\* the router _build_router makes when only OPENAI_API_KEY is set
OpenAIRouter == <<{s_openai}, s_openai>>

\* Streaming: few bodies, routers with and without the adapter asked for
TwoMessages == <<[role |-> "user", content |-> <<"h", "i">>],
                 [role |-> "assistant", content |-> <<"y", "o">>]>>

StreamBodies ==
    {[HelloBody EXCEPT !.provider = p, !.messages = m, !.temperature = t] :
        p \in {Absent, Some(s_anthropic)},
        m \in {HelloBody.messages, TwoMessages, <<>>},
        t \in {Absent, None, Some(21)}}

StreamRouters == {OpenAIRouter, <<{s_openai}, s_gemini>>}

Init == InitWith(StreamBodies, StreamRouters, BOOLEAN)

Spec == Init /\ [][Next]_vars

\* Routing: every provider name against every router, without a database,
\* and the one-message body with a database
RouterBodies ==
    {[HelloBody EXCEPT !.provider = p] :
        p \in {Absent, None} \cup {Some(n) : n \in ProviderNames}}
    \cup {[HelloBody EXCEPT !.messages = <<>>]}

Routers == {<<a, d>> : a \in (SUBSET ProviderSet) \ {{}}, d \in ProviderSet}

InitRouter ==
    \/ InitWith(RouterBodies, Routers, {FALSE})
    \/ InitWith({HelloBody}, {OpenAIRouter}, {TRUE})

SpecRouter == InitRouter /\ [][Next]_vars

\* Requests: every message list with every temperature and model, where the
\* list is empty or the one-message list, or the temperature is out of range;
\* every message list with the other fields left out
AllBodies ==
    [messages    : SeqUpTo(Messages, MaxMsgs),
     provider    : {Absent},
     model       : {Absent, Some("gpt-4o")},
     temperature : {Absent, None} \cup {Some(t) : t \in Temperatures}]

RequestBodies ==
    {b \in AllBodies :
        \/ b.messages \in {<<>>, HelloBody.messages}
        \/ b.temperature \in {Some(-1), Some(21)}
        \/ (b.temperature = Absent /\ b.model = Absent)}

InitRequest == InitWith(RequestBodies, {OpenAIRouter}, BOOLEAN)

SpecRequest == InitRequest /\ [][Next]_vars

-----------------------------------------------------------------------------
(* What the client and the collaborators observed *)

EventNames == {"message_start", "message_delta", "error", "message_complete"}

\* the server-sent events, in the order sent
Events == SelectSeq(log, LAMBDA e : e.name \in EventNames)

\* the positions of the log that hold a record of this name
At(name) == {i \in 1..Len(log) : log[i].name = name}

Count(name) == Cardinality(At(name))

\* the payloads of the message_delta events, in the order sent
DeltaPayloads ==
    LET d == SelectSeq(log, LAMBDA e : e.name = "message_delta")
    IN [i \in 1..Len(d) |-> d[i].delta]

\* a chunk that carries a non-empty text
HasText(c) ==
    /\ Len(c.choices) >= 1
    /\ c.choices[1].tag = "some"
    /\ c.choices[1].val # ""

\* the non-empty text fragments of a vendor stream, in order
Texts(chunks) ==
    LET t == SelectSeq(chunks, HasText)
    IN [i \in 1..Len(t) |-> t[i].choices[1].val]

Front(q) == SubSeq(q, 1, Len(q) - 1)

LastEvent == Events[Len(Events)]

-----------------------------------------------------------------------------
(* C1: a valid request's stream, however it ends (the vendor stream ends,   *)
(* the router or adapter raises, a disconnect is detected), holds exactly   *)
(* one message_complete event, and it is the last event; until the          *)
(* generator is finished none has been sent.                                *)
C1_OneCompleteLast ==
    /\ pc = "done" =>
         /\ ChatStreamRequest(body)
         /\ Count("message_complete") = 1
         /\ LastEvent.name = "message_complete"
    /\ pc # "done" => Count("message_complete") = 0

\* the three exits are reachable; this one is the detected disconnect
C1_Witness ==
    /\ pc = "done"
    /\ Count("break") = 1
    /\ Count("message_delta") >= 1

-----------------------------------------------------------------------------
(* C3: when the router or the adapter raises, exactly one error event is    *)
(* sent, it carries the exception's message, the deltas sent before it are  *)
(* all the fragments produced before the failure, nothing but               *)
(* message_complete follows it, and message_complete follows it at once.    *)
C3_ErrorEvent ==
    /\ Count("error") <= 1
    /\ (exc # NoExc /\ pc \in {"finally", "done"}) =>
         /\ Count("error") = 1
         /\ \A i \in At("error") : log[i].message = exc
    /\ At("error") # {} => exc # NoExc
    /\ exc # NoExc => DeltaPayloads = Texts(vendor_chunks)
    /\ \A i \in At("error") :
         /\ \A j \in (i + 1)..Len(log) :
              j = i + 1 /\ log[j].name = "message_complete"
         /\ pc = "done" => Len(log) = i + 1

C3_Witness ==
    /\ pc = "done"
    /\ exc \in VendorErrors
    /\ Count("message_delta") >= 1
    /\ Count("error") = 1

-----------------------------------------------------------------------------
(* C4: the poll that finds the client gone sends nothing and leaves the     *)
(* loop; after it no message_delta and no error event is sent, the fragment *)
(* in hand is dropped (the deltas sent are the fragments produced but the   *)
(* last), and the stream ends with message_complete.                        *)
C4_PollStep ==
    (pc = "relay" /\ disconnected /\ pc' # pc) =>
        /\ pc' = "finally"
        /\ log' = Append(log, Call("break"))

C4_AfterBreak ==
    \A b \in At("break") :
        /\ At("error") = {}
        /\ \A j \in (b + 1)..Len(log) : log[j].name = "message_complete"
        /\ \A j \in At("message_delta") : j < b
        /\ DeltaPayloads = Front(Texts(vendor_chunks))
        /\ Len(Texts(vendor_chunks)) = Len(DeltaPayloads) + 1
        /\ pc = "done" => LastEvent.name = "message_complete"

\* C4: a poll that finds the client gone sends nothing and breaks, and after
\* the break only message_complete is sent
C4_Disconnect == [][C4_PollStep]_vars /\ []C4_AfterBreak

C4_Witness ==
    /\ pc = "done"
    /\ Count("break") = 1
    /\ Count("message_delta") = 1
    /\ Len(vendor_chunks) = MaxChunks

-----------------------------------------------------------------------------
(* C5: a create_session or append_message that raises changes nothing the   *)
(* client sees: the router is still called, the events are message_start,   *)
(* the deltas of the fragments relayed, and message_complete, and an error  *)
(* event is sent only for an exception of the router or the adapter.        *)
PersistenceFailed ==
    \/ Count("create_session") = 1 /\ Len(sessions) = 0
    \/ Count("append_message") = 1 /\ Len(db_messages) = 0

RouterErrors == {Message("Provider not configured", p) : p \in ProviderSet}

C5_PersistenceSwallowed ==
    PersistenceFailed =>
        /\ session_id = 0
        /\ pc # "except" \/ exc \in VendorErrors \cup RouterErrors
        /\ \A i \in At("error") : log[i].message \in VendorErrors \cup RouterErrors
        /\ \A i \in At("error") : Count("stream_chat") = 1
        /\ Events[1].name = "message_start"
        /\ DeltaPayloads =
             IF pc = "relay" \/ Count("break") = 1
               THEN Front(Texts(vendor_chunks)) ELSE Texts(vendor_chunks)
        /\ pc = "done" =>
             /\ Count("stream_chat") = 1
             /\ LastEvent.name = "message_complete"
             /\ Len(Events) = 2 + Len(DeltaPayloads) + Count("error")

C5_Witness ==
    /\ pc = "done"
    /\ Count("create_session") = 1
    /\ Len(sessions) = 0
    /\ Count("error") = 0
    /\ Count("message_delta") = MaxChunks

-----------------------------------------------------------------------------
(* C6: when the vendor stream ends and no disconnect was detected, the      *)
(* message_delta payloads are the non-empty text fragments of the vendor    *)
(* stream, one event each, in order; chunks without text or malformed send  *)
(* nothing and raise nothing; the deltas all come before message_complete.  *)
C6_DeltasAreFragments ==
    (pc = "done" /\ exc = NoExc /\ Count("break") = 0) =>
        /\ DeltaPayloads = Texts(vendor_chunks)
        /\ Count("error") = 0
        /\ Len(Events) = Len(DeltaPayloads) + 2
        /\ \A i \in 2..(Len(Events) - 1) : Events[i].name = "message_delta"
        /\ LastEvent.name = "message_complete"

C6_Witness ==
    /\ pc = "done"
    /\ ~disconnected
    /\ vendor_chunks = <<TextChunk("Hel"), TextChunk("lo")>>
    /\ DeltaPayloads = <<"Hel", "lo">>

-----------------------------------------------------------------------------
(* C7: a body whose message list is empty, or whose temperature is below    *)
(* 0.0 or above 2.0, is rejected: no event is sent, no session or message   *)
(* row is written, the router and the adapter are not called.               *)
EmptyOrOutOfRange ==
    \/ body.messages = <<>>
    \/ body.temperature.tag = "some" /\ body.temperature.val < 0
    \/ body.temperature.tag = "some" /\ body.temperature.val > 20

C7_Rejected ==
    EmptyOrOutOfRange =>
        /\ pc \in {"received", "rejected"}
        /\ log = <<>>
        /\ sessions = <<>>
        /\ db_messages = <<>>
        /\ vendor_call = NoCall

C7_Witness ==
    /\ pc = "rejected"
    /\ body.messages = HelloBody.messages
    /\ body.temperature = Some(21)
    /\ db_enabled

-----------------------------------------------------------------------------
(* C8 as stated: with persistence on and not failing, one session and one   *)
(* message are written before the router is called, and the message's       *)
(* content is that of the first message of the request whose role is user.  *)
PersistenceDone ==
    /\ Count("create_session") = 1
    /\ Count("append_message") = 1
    /\ Len(sessions) = 1
    /\ Len(db_messages) = 1

IsFirstUser(messages, i) ==
    /\ messages[i].role = "user"
    /\ \A j \in 1..(i - 1) : messages[j].role # "user"

C8_FirstUserMessage ==
    (PersistenceDone /\ \E i \in 1..Len(payload.messages) :
                            payload.messages[i].role = "user") =>
        \E i \in 1..Len(payload.messages) :
            /\ IsFirstUser(payload.messages, i)
            /\ db_messages[1].content = payload.messages[i].content

(* C8 as amended: with persistence on and not failing, one session and one  *)
(* message of that session are written before the router is called; the     *)
(* message's content is that of the last message of the request, and its    *)
(* role is recorded as USER whatever the role of that message.              *)
C8_LastMessage ==
    /\ Len(sessions) <= 1
    /\ Len(db_messages) <= 1
    /\ (db_enabled /\ pc \notin {"received", "rejected", "start", "try", "append"}
          /\ ~PersistenceFailed) => PersistenceDone
    /\ PersistenceDone =>
         /\ db_messages[1] =
              [sessionId |-> sessions[1].id,
               role      |-> "USER",
               content   |-> payload.messages[Len(payload.messages)].content]
         /\ \A i \in At("create_session") : \A j \in At("append_message") : i < j
         /\ \A i \in At("append_message") : \A j \in At("stream_chat") : i < j

C8_Witness ==
    /\ PersistenceDone
    /\ Count("stream_chat") = 1
    /\ Len(payload.messages) = 2
    /\ payload.messages[1].role = "user"
    /\ payload.messages[2].role = "assistant"
    /\ payload.messages[1].content # payload.messages[2].content

-----------------------------------------------------------------------------
(* C9: _resolve returns the default provider when no name is given, the     *)
(* member of the enumeration the name equals ignoring letter case when      *)
(* there is one, and the default provider for any other name; the result is *)
(* always a member of the enumeration.                                      *)
UpperCase == <<"A", "B", "C", "D", "E", "F", "G", "H", "I", "J", "K", "L", "M",
               "N", "O", "P", "Q", "R", "S", "T", "U", "V", "W", "X", "Y", "Z">>

LowerCase == <<"a", "b", "c", "d", "e", "f", "g", "h", "i", "j", "k", "l", "m",
               "n", "o", "p", "q", "r", "s", "t", "u", "v", "w", "x", "y", "z">>

SameLetter(c, d) ==
    \/ c = d
    \/ \E k \in 1..Len(UpperCase) :
         {c, d} = {UpperCase[k], LowerCase[k]}

EqualIgnoringCase(a, b) ==
    /\ Len(a) = Len(b)
    /\ \A i \in 1..Len(a) : SameLetter(a[i], b[i])

\* the provider the name stands for
Named(provider, dflt) ==
    IF provider.tag = "none" THEN dflt
    ELSE IF \E m \in ProviderSet : EqualIgnoringCase(provider.val, m)
      THEN CHOOSE m \in ProviderSet : EqualIgnoringCase(provider.val, m)
      ELSE dflt

\* the provider LLMRouter.stream_chat resolved: the adapter it called, or the
\* provider its RuntimeError names
RouterCalled == Count("stream_chat") = 1

Resolved == IF vendor_call # NoCall THEN vendor_call.adapter ELSE exc.arg

C9_Resolve ==
    RouterCalled =>
        /\ Resolved = Named(payload.provider, default_provider)
        /\ Resolved \in ProviderSet

C9_Witness ==
    /\ RouterCalled
    /\ payload.provider = Some(<<"A", "n", "t", "h", "r", "o", "p", "i", "c">>)
    /\ default_provider = s_openai
    /\ Resolved = s_anthropic

-----------------------------------------------------------------------------
(* C2 as stated: for a requested name that is not a key of the adapter set  *)
(* (here: that equals none of the keys, even ignoring case), the default    *)
(* provider having an adapter, the router streams from the default          *)
(* provider's adapter and raises nothing.                                   *)
C2_FallsBack ==
    (RouterCalled /\ payload.provider.tag = "some"
       /\ default_provider \in adapters
       /\ \A a \in adapters : ~EqualIgnoringCase(payload.provider.val, a)) =>
        /\ vendor_call # NoCall
        /\ vendor_call.adapter = default_provider
        /\ exc \notin RouterErrors

(* C2 as amended: a name that equals no member of the enumeration ignoring  *)
(* case (or no name) stands for the default provider, a name that equals a  *)
(* member ignoring case stands for that member; the router streams from     *)
(* that provider's adapter when it has one, and otherwise raises            *)
(* "Provider not configured" without calling any adapter, which the client  *)
(* sees as an error event.                                                  *)
C2_FallsBackOrRaises ==
    RouterCalled =>
        LET p == Named(payload.provider, default_provider)
        IN IF p \in adapters
             THEN /\ vendor_call # NoCall
                  /\ vendor_call.adapter = p
                  /\ exc \notin RouterErrors
             ELSE /\ vendor_call = NoCall
                  /\ Count("completions_create") = 0
                  /\ exc = Message("Provider not configured", p)
                  /\ pc \in {"finally", "done"} =>
                       \E i \in At("error") : log[i].message = exc

C2_Witness ==
    /\ RouterCalled
    /\ payload.provider = Some(s_anthropic)
    /\ adapters = {s_openai}
    /\ default_provider = s_openai
    /\ exc = Message("Provider not configured", s_anthropic)
    /\ pc = "done"

-----------------------------------------------------------------------------
(* C10: a request only moves forward (start, streaming, error, terminator,  *)
(* finished); message_start is sent once and before anything else the       *)
(* request does; no message_delta follows an error event or a detected      *)
(* disconnect; the router and the vendor stream are opened at most once.    *)
Phase(at) ==
    CASE at = "received" -> 0
      [] at = "rejected" -> 1
      [] at = "start" -> 1
      [] at \in {"try", "append", "stream_chat", "create", "stream", "relay"} -> 2
      [] at = "except" -> 3
      [] at = "finally" -> 4
      [] at = "done" -> 5

C10_Order ==
    /\ log # <<>> => log[1].name = "message_start"
    /\ Count("message_start") = IF pc \in {"received", "rejected", "start"} THEN 0 ELSE 1
    /\ \A i \in At("error") \cup At("break") : \A j \in At("message_delta") : j < i
    /\ Count("stream_chat") <= 1
    /\ Count("completions_create") <= 1
    /\ Count("error") + Count("break") <= 1

\* C10: the phase of a request never decreases, and the order of its events
\* and calls is the one above
C10_Forward == [][Phase(pc') >= Phase(pc)]_vars /\ []C10_Order

C10_Witness ==
    /\ pc = "done"
    /\ Count("error") = 1
    /\ Count("message_delta") = 2
    /\ Count("append_message") = 1

====
